---- MODULE Spec2Model ----
(***************************************************************************)
(* Model of scripts/migrate_from_gcp.py: the one-shot copy of four tables  *)
(* from the source database (GCP Cloud SQL) to the destination (Neon).     *)
(* A table is a set of rows; a row is a record of its key columns (the     *)
(* other columns are copied as-is and carry no behaviour).  Every database *)
(* call of the script is one step, and every step may raise.               *)
(***************************************************************************)
EXTENDS Integers, Sequences, FiniteSets, TLC

\* ---- bounds of the model ------------------------------------------------
MaxId == 2
MaxFact == 1
MaxInter == 1
MaxRuns == 2
MaxBatch == 2

\* ---- program constants --------------------------------------------------
NULL == 0
batch_size == 1000

\* ---- configuration ------------------------------------------------------
\* (definitions marked "faulty variant" are not part of the model: a theorem
\* that depends on the code fails when the variant replaces the definition
\* that follows it)
\* faulty variant: the referencing table listed before the table it references
TABLES_TO_MIGRATE_fk_first == <<"interactions", "people", "meal_logs", "daily_meal_scores">>

TABLES_TO_MIGRATE == <<"people", "meal_logs", "daily_meal_scores", "interactions">>

Tables == {"people", "meal_logs", "daily_meal_scores", "interactions"}

NONE == "none"

\* ---- environment --------------------------------------------------------
required_gcp == <<"INSTANCE_CONNECTION_NAME", "DB_NAME", "DB_USER">>

required_neon == <<"NEON_DATABASE_URL">>

RequiredVars == {"INSTANCE_CONNECTION_NAME", "DB_NAME", "DB_USER", "NEON_DATABASE_URL"}

\* values of a variable, as strings of characters: empty, set, and for the
\* instance name well-formed (project:region:instance) or not
ValuesOf(v) ==
    IF v = "INSTANCE_CONNECTION_NAME"
    THEN {<<>>, <<"p", ":", "r", ":", "i">>, <<"p", ":", "r">>}
    ELSE {<<>>, <<"x">>}

\* os.environ: a variable is unset (not in the domain) or has a value
Environments ==
    UNION {{e \in [S -> UNION {ValuesOf(v) : v \in RequiredVars}] :
                \A v \in S : e[v] \in ValuesOf(v)} : S \in SUBSET RequiredVars}

ValidEnvironment ==
    [v \in RequiredVars |->
        IF v = "INSTANCE_CONNECTION_NAME" THEN <<"p", ":", "r", ":", "i">> ELSE <<"x">>]

\* faulty variant: an empty value counts as present
NotSet_unset_only(e, v) == v \notin DOMAIN e

\* not os.environ.get(var): unset, or set to the empty string
NotSet(e, v) == v \notin DOMAIN e \/ e[v] = <<>>

\* the list "missing" of main
Missing(e) == SelectSeq(required_gcp \o required_neon, LAMBDA v : NotSet(e, v))

\* instance.count(":")
RECURSIVE CountColons(_)
CountColons(str) ==
    IF str = <<>> THEN 0
    ELSE (IF Head(str) = ":" THEN 1 ELSE 0) + CountColons(Tail(str))

\* get_gcp_engine and get_neon_engine raise no RuntimeError
EnginesOk(e) ==
    /\ ~NotSet(e, "INSTANCE_CONNECTION_NAME") /\ ~NotSet(e, "DB_NAME") /\ ~NotSet(e, "DB_USER")
    /\ CountColons(e["INSTANCE_CONNECTION_NAME"]) = 2
    /\ ~NotSet(e, "NEON_DATABASE_URL")

\* position of a table in the migration order
IndexOf(t) == CHOOSE k \in 1..Len(TABLES_TO_MIGRATE) : TABLES_TO_MIGRATE[k] = t

\* ---- destination schema (schema_sql) ------------------------------------
\* REFERENCES clauses: the tables a table points to by foreign key
References(t) == IF t = "interactions" THEN {"people"} ELSE {}

\* the tables holding a foreign key to t
ReferencedBy(t) == {u \in Tables : t \in References(u)}

\* tables whose id column is SERIAL (owns a sequence)
SerialTables == {"people", "meal_logs", "interactions"}

\* column_name ORDER BY ordinal_position, for the schema of schema_sql
get_table_columns(t) ==
    CASE t = "people" ->
           <<"id", "name", "note", "gender", "importance", "alive", "tag",
             "relationships", "created_at", "updated_at">>
      [] t = "meal_logs" ->
           <<"id", "user_id", "description", "health_score", "health_comment",
             "date", "created_at", "updated_at">>
      [] t = "daily_meal_scores" ->
           <<"user_id", "date", "health_score", "health_comment",
             "created_at", "updated_at">>
      [] t = "interactions" ->
           <<"id", "user_id", "person_id", "interaction_type", "date", "note",
             "created_at", "updated_at">>

InSeq(x, s) == \E k \in 1..Len(s) : s[k] = x

\* ---- rows ---------------------------------------------------------------
\* the rows a table of the model may hold; an interactions row points to no
\* person or to the person with its own number
RowUniverse(t) ==
    CASE t = "people" -> {[id |-> n] : n \in 1..MaxId}
      [] t = "meal_logs" -> {[id |-> n] : n \in 1..MaxFact}
      [] t = "daily_meal_scores" -> {[date |-> n] : n \in 1..MaxFact}
      [] t = "interactions" ->
           UNION {{[id |-> n, person_id |-> p] : p \in {NULL, n}} : n \in 1..MaxInter}

\* primary key of a row: id, or (user_id, date) for daily_meal_scores
Key(r) == IF "id" \in DOMAIN r THEN r.id ELSE r.date

PrimaryKeyOk(S) == \A r1 \in S, r2 \in S : Key(r1) = Key(r2) => r1 = r2

\* person_id INTEGER REFERENCES people(id)
ForeignKeyOk(inter, people) ==
    \A r \in inter : r.person_id = NULL \/ \E p \in people : p.id = r.person_id

Keys(S) == {Key(r) : r \in S}

\* the largest key a row of table t has in the model
TopKey(t) == IF t = "people" THEN MaxId ELSE IF t = "interactions" THEN MaxInter ELSE MaxFact

\* contents of a source table: keys 1..n
SourceTableStates(t) ==
    {S \in SUBSET RowUniverse(t) :
        PrimaryKeyOk(S) /\ Keys(S) = 1..Cardinality(S)}

\* contents of a destination table before the first run: keys m..TopKey
DestTableStates(t) ==
    {S \in SUBSET RowUniverse(t) :
        PrimaryKeyOk(S) /\ Keys(S) = (TopKey(t) - Cardinality(S) + 1)..TopKey(t)}

MkDb(p, m, d, x) ==
    [t \in Tables |-> CASE t = "people" -> p
                        [] t = "meal_logs" -> m
                        [] t = "daily_meal_scores" -> d
                        [] t = "interactions" -> x]

\* SELECT COUNT(*) FROM table
get_table_count(db, t) == Cardinality(db[t])

MaxOf(S) == CHOOSE m \in S : \A n \in S : n <= m

Ids(S) == {r.id : r \in S}

\* fetchall() of SELECT ... FROM t without ORDER BY: the rows of the table as
\* a list, in whatever order the server returns them (the set of the lists)
RECURSIVE fetchall(_)
fetchall(S) ==
    IF S = {} THEN {<<>>}
    ELSE UNION {{<<r>> \o rest : rest \in fetchall(S \ {r})} : r \in S}

\* ---- sequences ----------------------------------------------------------
\* a sequence: its last_value and whether it has been called
FreshSeq == [last |-> 1, called |-> FALSE]

nextval(s) == IF s.called THEN s.last + 1 ELSE s.last

\* the sequence of a table that was filled by organic inserts
OrganicSeq(S) == IF S = {} THEN FreshSeq ELSE [last |-> MaxOf(Ids(S)), called |-> TRUE]


\* ---- statements run against the destination -----------------------------
\* faulty variant: create-or-replace, every table is created anew
CreateIfNotExists_replace(sch, d, sq) ==
    [schema |-> Tables,
     dst |-> [t \in Tables |-> {}],
     seq |-> [t \in Tables |-> FreshSeq]]

\* CREATE TABLE IF NOT EXISTS, for the four tables, in one transaction:
\* a table that exists keeps its rows and its sequence
CreateIfNotExists(sch, d, sq) ==
    [schema |-> Tables,
     dst |-> [t \in Tables |-> IF t \in sch THEN d[t] ELSE {}],
     seq |-> [t \in Tables |-> IF t \in sch THEN sq[t] ELSE FreshSeq]]

\* faulty variant: CASCADE left out, only the named table is emptied
TruncateCascade_only(d, t) == [u \in Tables |-> IF u = t THEN {} ELSE d[u]]

\* faulty variant: the destination is not cleared before the copy
TruncateCascade_none(d, t) == d

\* TRUNCATE TABLE t ... CASCADE: empties t and every table referencing it
TruncateCascade(d, t) ==
    [u \in Tables |-> IF u = t \/ u \in ReferencedBy(t) THEN {} ELSE d[u]]

\* ... RESTART IDENTITY: restarts the sequences of the truncated tables
RestartIdentity(sq, t) ==
    [u \in Tables |-> IF u = t \/ u \in ReferencedBy(t) THEN FreshSeq ELSE sq[u]]

\* faulty variant: the TRUNCATE is issued on the source engine
ExecuteTruncate_on_source(s, d, t) == [src |-> TruncateCascade(s, t), dst |-> d]

\* the TRUNCATE runs on a connection of dest_engine
ExecuteTruncate(s, d, t) == [src |-> s, dst |-> TruncateCascade(d, t)]

\* whether INSERT of row r into table t is accepted, given the committed
\* rows d and the rows pending in the open transaction
InsertOk(d, pending, t, r) ==
    /\ \A o \in d[t] \cup pending : Key(o) # Key(r)
    /\ t = "interactions" => ForeignKeyOk({r}, d["people"])

\* rows[i : i + batch_size] (i counts from 0)
Batch(rws, k, size) ==
    SubSeq(rws, k + 1, IF k + size < Len(rws) THEN k + size ELSE Len(rws))

\* faulty variant: every batch is committed on its own
AfterBatch_commit(d, pending, t) ==
    [dst |-> [d EXCEPT ![t] = @ \cup pending], tx |-> {}]

\* the end of a batch only logs progress: the transaction stays open and
\* nothing is committed
AfterBatch(d, pending, t) == [dst |-> d, tx |-> pending]

\* faulty variant: the sequence is left as TRUNCATE ... RESTART IDENTITY set it
Setval_skipped(s, S) == s

\* SELECT setval(pg_get_serial_sequence(t, 'id'), COALESCE(MAX(id), 1)) FROM t
Setval(s, S) ==
    [last |-> IF S = {} THEN 1 ELSE MaxOf(Ids(S)), called |-> TRUE]

\* "id" in columns and table != "daily_meal_scores"
NeedsSequenceReset(t) == InSeq("id", get_table_columns(t)) /\ t # "daily_meal_scores"

\* ---- the confirmation prompt --------------------------------------------
Responses == {"y", "Y", " y ", "n", "", "yes"}

\* response.strip().lower(), on the answers of the model
StripLower(resp) ==
    CASE resp = "Y" -> "y"
      [] resp = " y " -> "y"
      [] OTHER -> resp

\* faulty variant: every answer but n goes on
Proceed_unless_n(yes, resp) == yes \/ StripLower(resp) # "n"

\* the prompt is skipped with --yes; otherwise only the answer y goes on
Proceed(yes, resp) == yes \/ StripLower(resp) = "y"

\* ---- control flow of main -----------------------------------------------
\* faulty variant: the result of the probe is ignored
AfterProbe_ignored(ok, next) == next

\* a probe that raises ends the run through the outer except
AfterProbe(ok, next) == IF ok THEN next ELSE "failed"

\* where the loop over TABLES_TO_MIGRATE goes after table number k
NextTable(k) ==
    IF k < Len(TABLES_TO_MIGRATE) THEN [pc |-> "mt_count", ti |-> k + 1]
    ELSE [pc |-> "final", ti |-> k]

\* where the loop of the pre-migration report goes after table number k
NextPreCheck(k) ==
    IF k < Len(TABLES_TO_MIGRATE) THEN [pc |-> "precheck", ti |-> k + 1]
    ELSE [pc |-> "confirm", ti |-> 1]

\* faulty variant: an error of the pre-migration report ends the run
AfterPreCheckError_fatal(k) == [pc |-> "failed", ti |-> k]

\* the handler of the pre-migration report swallows the error
AfterPreCheckError(k) == NextPreCheck(k)

\* faulty variant: the error is logged and the loop goes on (best effort)
AfterCopyError_continue(k) == NextTable(k)

\* except Exception: log and raise -> outer except -> sys.exit(1)
AfterCopyError(k) == [pc |-> "failed", ti |-> k]

\* the match indicator of the final report
Status(source_count, dest_count) == IF source_count = dest_count THEN "ok" ELSE "warn"


\* ---- state --------------------------------------------------------------
VARIABLES
    pc,         \* position of main / migrate_table
    ti,         \* index in TABLES_TO_MIGRATE of the table being migrated
    run,        \* number of the current invocation of the script
    src,        \* source database: the committed rows of each table
    dst,        \* destination database: the committed rows of each table
    schema,     \* the tables that exist in the destination
    seq,        \* destination sequences (of the SERIAL id columns)
    rows,       \* migrate_table: the rows fetched from the source
    i,          \* migrate_table: offset of the next batch
    inserted,   \* migrate_table: rows inserted so far
    tx,         \* rows inserted in the open destination transaction
    confirmed,  \* whether --yes was given or the prompt was answered y
    probed,     \* the connections whose SELECT 1 has succeeded
    schemaRun,  \* whether the schema statements have been executed
    started,    \* tables migrate_table has been called for in this run
    completed,  \* tables migrate_table has returned for in this run
    failedAt,   \* the table whose migrate_table raised, or NONE
    err,        \* the step that ended the run in failure, or NONE
    pre,        \* destination rows of the current table when its copy began
    dst0,       \* destination rows when the run began
    prev,       \* destination row counts at the end of the previous run
    report,     \* final state: the match indicator of each table
    env,        \* os.environ: the required variables that are set
    batchSize,  \* migrate_table: its parameter batch_size
    missing,    \* main: the list of missing environment variables
    src0,       \* source rows when the script was first started
    truncated,  \* tables whose own TRUNCATE has committed in this run
    written     \* tables whose insert transaction has committed in this run

vars == <<pc, ti, run, src, dst, schema, seq, rows, i, inserted, tx, confirmed,
          probed, schemaRun, started, completed, failedAt, err, pre, dst0,
          prev, report, env, batchSize, missing, src0, truncated, written>>

inputs == <<env, batchSize, src0>>
ghosts == <<missing, truncated, written>>
db == <<dst, schema, seq>>
locals == <<rows, i, inserted, tx>>
history == <<confirmed, probed, schemaRun, started, completed, failedAt, err, pre,
             dst0, prev, report>>

NoReport == [t \in Tables |-> NONE]
NoCounts == [t \in Tables |-> 0]

\* the destinations the model starts from: any set of existing tables that
\* respects the foreign key, absent tables holding no rows
DestStates ==
    {d \in [schema : SUBSET Tables, people : DestTableStates("people"),
            meal_logs : DestTableStates("meal_logs"),
            daily_meal_scores : DestTableStates("daily_meal_scores"),
            interactions : DestTableStates("interactions")] :
        /\ "interactions" \in d.schema => "people" \in d.schema
        /\ \A t \in Tables \ d.schema : d[t] = {}
        /\ ForeignKeyOk(d.interactions, d.people)}

\* a source whose tables all hold as many rows as the model allows
FullSources ==
    {MkDb(p, m, d, x) :
        p \in {S \in SourceTableStates("people") : Cardinality(S) = MaxId},
        m \in {S \in SourceTableStates("meal_logs") : Cardinality(S) = MaxFact},
        d \in {S \in SourceTableStates("daily_meal_scores") : Cardinality(S) = MaxFact},
        x \in {S \in SourceTableStates("interactions") : Cardinality(S) = MaxInter}}

AnySources ==
    {MkDb(p, m, d, x) :
        p \in SourceTableStates("people"), m \in SourceTableStates("meal_logs"),
        d \in SourceTableStates("daily_meal_scores"),
        x \in SourceTableStates("interactions")}

\* the inputs of the model, varied one group at a time:
\*   the databases, under a valid environment and the default batch size;
\*   the environment, with a full source and a destination without tables;
\*   the batch size, with a full source and any destination
InitInputs ==
    \/ /\ env = ValidEnvironment
       /\ batchSize = batch_size
       /\ src \in AnySources
       /\ \E d \in DestStates :
             /\ schema = d.schema
             /\ dst = MkDb(d.people, d.meal_logs, d.daily_meal_scores, d.interactions)
    \/ /\ env \in Environments
       /\ batchSize = batch_size
       /\ src \in FullSources
       /\ schema = {}
       /\ dst = MkDb({}, {}, {}, {})
    \/ /\ env = ValidEnvironment
       /\ batchSize \in 1..MaxBatch
       /\ src \in FullSources
       /\ \E d \in DestStates :
             /\ schema = d.schema
             /\ dst = MkDb(d.people, d.meal_logs, d.daily_meal_scores, d.interactions)

Init ==
    /\ pc = "validate"
    /\ ti = 1
    /\ run = 1
    /\ InitInputs
    /\ seq = [t \in Tables |-> IF t \in SerialTables THEN OrganicSeq(dst[t]) ELSE FreshSeq]
    /\ missing = <<>>
    /\ src0 = src
    /\ truncated = {}
    /\ written = {}
    /\ rows = <<>>
    /\ i = 0
    /\ inserted = 0
    /\ tx = {}
    /\ confirmed = FALSE
    /\ probed = {}
    /\ schemaRun = FALSE
    /\ started = {}
    /\ completed = {}
    /\ failedAt = NONE
    /\ err = NONE
    /\ pre = {}
    /\ dst0 = dst
    /\ prev = NoCounts
    /\ report = NoReport

\* ---- main: lines 260-323 ------------------------------------------------
\* "Validate environment": the missing variables are collected and, if there
\* are any, reported before sys.exit(1)
Validate ==
    /\ pc = "validate"
    /\ missing' = Missing(env)
    /\ pc' = IF Missing(env) # <<>> THEN "failed" ELSE "connect"
    /\ err' = IF Missing(env) # <<>> THEN "config" ELSE err
    /\ UNCHANGED <<ti, run, inputs, src, db, locals, confirmed, probed, schemaRun, started,
                   completed, failedAt, pre, dst0, prev, report, truncated, written>>

\* get_gcp_engine() and get_neon_engine(): the engines are created (no
\* connection is opened yet); a malformed instance name raises
Connect ==
    /\ pc = "connect"
    /\ \E ok \in BOOLEAN :
          /\ pc' = IF ok /\ EnginesOk(env) THEN "probe_source" ELSE "failed"
          /\ err' = IF ok /\ EnginesOk(env) THEN err ELSE "connect"
    /\ UNCHANGED <<ti, run, inputs, src, db, locals, confirmed, probed, schemaRun, started,
                   completed, failedAt, pre, dst0, prev, report, ghosts>>

\* with source_engine.connect(): SELECT 1
ProbeSource ==
    /\ pc = "probe_source"
    /\ \E ok \in BOOLEAN :
          /\ pc' = AfterProbe(ok, "probe_dest")
          /\ probed' = IF ok THEN probed \cup {"source"} ELSE probed
          /\ err' = IF ok THEN err ELSE "probe_source"
    /\ UNCHANGED <<ti, run, src, db, locals, confirmed, schemaRun, started, completed,
                   failedAt, pre, dst0, prev, report>>
    /\ UNCHANGED <<inputs, ghosts>>

\* with dest_engine.connect(): SELECT 1
ProbeDest ==
    /\ pc = "probe_dest"
    /\ \E ok \in BOOLEAN :
          /\ pc' = AfterProbe(ok, "schema")
          /\ probed' = IF ok THEN probed \cup {"dest"} ELSE probed
          /\ err' = IF ok THEN err ELSE "probe_dest"
    /\ UNCHANGED <<ti, run, src, db, locals, confirmed, schemaRun, started, completed,
                   failedAt, pre, dst0, prev, report>>
    /\ UNCHANGED <<inputs, ghosts>>

\* ensure_schema_exists: one transaction; rejected statements roll back
EnsureSchema ==
    /\ pc = "schema"
    /\ \/ LET c == CreateIfNotExists(schema, dst, seq)
          IN /\ schema' = c.schema
             /\ dst' = c.dst
             /\ seq' = c.seq
             /\ schemaRun' = TRUE
             /\ pc' = "precheck"
             /\ err' = err
       \/ /\ pc' = "failed"
          /\ err' = "schema"
          /\ schemaRun' = TRUE
          /\ UNCHANGED db
    /\ UNCHANGED <<ti, run, src, locals, confirmed, probed, started, completed,
                   failedAt, pre, dst0, prev, report>>
    /\ UNCHANGED <<inputs, ghosts>>

\* "Current state before migration", one table of the loop: both counts
\* are read and logged, or one of the reads raises
PreCheck ==
    /\ pc = "precheck"
    /\ \/ /\ pc' = NextPreCheck(ti).pc
          /\ ti' = NextPreCheck(ti).ti
       \/ /\ pc' = "precheck_except"
          /\ ti' = ti
    /\ UNCHANGED <<run, src, db, locals, history>>
    /\ UNCHANGED <<inputs, ghosts>>

\* except Exception as e: logger.warning(...), and the loop goes on
PreCheckExcept ==
    /\ pc = "precheck_except"
    /\ pc' = AfterPreCheckError(ti).pc
    /\ ti' = AfterPreCheckError(ti).ti
    /\ err' = IF AfterPreCheckError(ti).pc = "failed" THEN "precheck" ELSE err
    /\ UNCHANGED <<run, src, db, locals, confirmed, probed, schemaRun, started, completed,
                   failedAt, pre, dst0, prev, report>>
    /\ UNCHANGED <<inputs, ghosts>>

\* the confirmation gate
Confirm ==
    /\ pc = "confirm"
    /\ \/ \E yes \in BOOLEAN, resp \in Responses :
             /\ confirmed' = (yes \/ StripLower(resp) = "y")
             /\ pc' = IF Proceed(yes, resp) THEN "mt_count" ELSE "cancelled"
             /\ UNCHANGED err
       \* no --yes and stdin at end of file: input() raises EOFError, which
       \* the except Exception of main reports before sys.exit(1)
       \/ /\ confirmed' = FALSE
          /\ pc' = "failed"
          /\ err' = "input"
    /\ ti' = 1
    /\ UNCHANGED <<run, src, db, locals, probed, schemaRun, started, completed,
                   failedAt, pre, dst0, prev, report>>
    /\ UNCHANGED <<inputs, ghosts>>


\* ---- migrate_table: lines 189-241 ---------------------------------------
CurrentTable == TABLES_TO_MIGRATE[ti]

SeqToSet(b) == {b[k] : k \in 1..Len(b)}

\* every INSERT of the batch is accepted, in order
BatchOk(d, pending, t, b) ==
    \A k \in 1..Len(b) :
        InsertOk(d, pending \cup {b[j] : j \in 1..(k - 1)}, t, b[k])

\* an exception leaves migrate_table: open transactions roll back, the
\* rows read are gone, and main's handler decides where the run goes;
\* inserted keeps the progress last logged ("Inserted k/n rows")
Raise(t) ==
    /\ pc' = AfterCopyError(ti).pc
    /\ ti' = AfterCopyError(ti).ti
    /\ failedAt' = t
    /\ err' = "copy"
    /\ rows' = <<>>
    /\ i' = 0
    /\ inserted' = inserted
    /\ tx' = {}

\* source_count = get_table_count(source_engine, table); skip when 0
MtSourceCount ==
    /\ pc = "mt_count"
    /\ started' = started \cup {CurrentTable}
    /\ pre' = dst[CurrentTable]
    /\ \/ /\ get_table_count(src, CurrentTable) = 0
          /\ completed' = completed \cup {CurrentTable}
          /\ pc' = NextTable(ti).pc
          /\ ti' = NextTable(ti).ti
          /\ UNCHANGED <<locals, failedAt, err>>
       \/ /\ get_table_count(src, CurrentTable) # 0
          /\ pc' = "mt_columns"
          /\ UNCHANGED <<ti, completed, locals, failedAt, err>>
       \/ /\ Raise(CurrentTable)
          /\ UNCHANGED completed
    /\ UNCHANGED <<run, src, db, confirmed, probed, schemaRun, dst0, prev, report>>
    /\ UNCHANGED <<inputs, ghosts>>

\* columns = get_table_columns(source_engine, table)
MtColumns ==
    /\ pc = "mt_columns"
    /\ \/ /\ pc' = "mt_truncate"
          /\ UNCHANGED <<ti, locals, failedAt, err>>
       \/ Raise(CurrentTable)
    /\ UNCHANGED <<run, src, db, confirmed, probed, schemaRun, started, completed,
                   pre, dst0, prev, report>>
    /\ UNCHANGED <<inputs, ghosts>>

\* with dest_engine.begin(): TRUNCATE TABLE ... RESTART IDENTITY CASCADE
\* (a transaction of its own, committed when the block is left)
MtTruncate ==
    /\ pc = "mt_truncate"
    /\ \/ /\ src' = ExecuteTruncate(src, dst, CurrentTable).src
          /\ dst' = ExecuteTruncate(src, dst, CurrentTable).dst
          /\ seq' = RestartIdentity(seq, CurrentTable)
          /\ truncated' = truncated \cup {CurrentTable}
          /\ pc' = "mt_read"
          /\ UNCHANGED <<ti, locals, failedAt, err>>
       \/ /\ Raise(CurrentTable)
          /\ UNCHANGED <<src, dst, seq, truncated>>
    /\ UNCHANGED <<run, schema, confirmed, probed, schemaRun, started, completed,
                   pre, dst0, prev, report>>
    /\ UNCHANGED <<inputs, missing, written>>

\* rows = result.fetchall(); inserted = 0; the insert transaction begins
MtRead ==
    /\ pc = "mt_read"
    /\ \/ /\ rows' \in fetchall(src[CurrentTable])
          /\ i' = 0
          /\ inserted' = 0
          /\ tx' = {}
          /\ pc' = "mt_insert"
          /\ UNCHANGED <<ti, failedAt, err>>
       \/ Raise(CurrentTable)
    /\ UNCHANGED <<run, src, db, confirmed, probed, schemaRun, started, completed,
                   pre, dst0, prev, report>>
    /\ UNCHANGED <<inputs, ghosts>>

\* one pass of the loop over batches: the INSERTs of rows[i : i + batch_size]
MtInsertBatch ==
    /\ pc = "mt_insert"
    /\ i < Len(rows)
    /\ \/ /\ BatchOk(dst, tx, CurrentTable, Batch(rows, i, batchSize))
          /\ dst' = AfterBatch(dst, tx \cup SeqToSet(Batch(rows, i, batchSize)),
                               CurrentTable).dst
          /\ tx' = AfterBatch(dst, tx \cup SeqToSet(Batch(rows, i, batchSize)),
                              CurrentTable).tx
          /\ inserted' = inserted + Len(Batch(rows, i, batchSize))
          /\ i' = i + batchSize
          /\ UNCHANGED <<pc, ti, rows, failedAt, err>>
       \/ /\ Raise(CurrentTable)
          /\ UNCHANGED dst
    /\ UNCHANGED <<run, src, schema, seq, confirmed, probed, schemaRun, started, completed,
                   pre, dst0, prev, report>>
    /\ UNCHANGED <<inputs, ghosts>>

\* the loop is over: the with block commits the insert transaction
MtCommit ==
    /\ pc = "mt_insert"
    /\ i >= Len(rows)
    /\ \/ /\ dst' = [dst EXCEPT ![CurrentTable] = @ \cup tx]
          /\ written' = written \cup {CurrentTable}
          /\ tx' = {}
          /\ pc' = IF NeedsSequenceReset(CurrentTable) THEN "mt_setval" ELSE "mt_destcount"
          /\ UNCHANGED <<ti, rows, i, inserted, failedAt, err>>
       \/ /\ Raise(CurrentTable)
          /\ UNCHANGED <<dst, written>>
    /\ UNCHANGED <<run, src, schema, seq, confirmed, probed, schemaRun, started,
                   completed, pre, dst0, prev, report>>
    /\ UNCHANGED <<inputs, missing, truncated>>

\* with dest_engine.begin(): SELECT setval(...)
MtSetval ==
    /\ pc = "mt_setval"
    /\ \/ /\ seq' = [seq EXCEPT ![CurrentTable] = Setval(@, dst[CurrentTable])]
          /\ pc' = "mt_destcount"
          /\ UNCHANGED <<ti, locals, failedAt, err>>
       \/ /\ Raise(CurrentTable)
          /\ UNCHANGED seq
    /\ UNCHANGED <<run, src, dst, schema, confirmed, probed, schemaRun, started,
                   completed, pre, dst0, prev, report>>
    /\ UNCHANGED <<inputs, ghosts>>

\* dest_count = get_table_count(dest_engine, table); migrate_table returns
MtDestCount ==
    /\ pc = "mt_destcount"
    /\ \/ /\ completed' = completed \cup {CurrentTable}
          /\ pc' = NextTable(ti).pc
          /\ ti' = NextTable(ti).ti
          /\ rows' = <<>>
          /\ i' = 0
          /\ inserted' = 0
          /\ tx' = {}
          /\ UNCHANGED <<failedAt, err>>
       \/ /\ Raise(CurrentTable)
          /\ UNCHANGED completed
    /\ UNCHANGED <<run, src, db, confirmed, probed, schemaRun, started, pre, dst0,
                   prev, report>>
    /\ UNCHANGED <<inputs, ghosts>>

\* the positions inside migrate_table once the copy (source count > 0) has
\* begun, and those before the commit of the insert transaction
CopyPositions ==
    {"mt_columns", "mt_truncate", "mt_read", "mt_insert", "mt_setval", "mt_destcount"}

BeforeWriteCommit == {"mt_columns", "mt_truncate", "mt_read", "mt_insert"}

\* the process is killed inside migrate_table: the open transaction is
\* never committed, nothing else runs; err tells whether the insert
\* transaction of the table had committed
Kill ==
    /\ pc \in CopyPositions
    /\ pc' = "killed"
    /\ err' = IF pc \in BeforeWriteCommit THEN "killed_before_commit"
              ELSE "killed_after_commit"
    /\ rows' = <<>>
    /\ i' = 0
    /\ inserted' = 0
    /\ tx' = {}
    /\ UNCHANGED <<ti, run, inputs, src, db, confirmed, probed, schemaRun, started,
                   completed, failedAt, pre, dst0, prev, report, ghosts>>

\* ---- main: lines 334-351 ------------------------------------------------
\* "Final state after migration" and "Migration completed successfully!";
\* a count that raises goes to the outer except
FinalState ==
    /\ pc = "final"
    /\ \/ /\ report' = [t \in Tables |->
                          Status(get_table_count(src, t), get_table_count(dst, t))]
          /\ pc' = "success"
          /\ err' = err
       \/ /\ pc' = "failed"
          /\ err' = "verify"
          /\ report' = report
    /\ UNCHANGED <<ti, run, src, db, locals, confirmed, probed, schemaRun, started,
                   completed, failedAt, pre, dst0, prev>>
    /\ UNCHANGED <<inputs, ghosts>>

\* the exit status of the process
ExitStatus == CASE pc = "failed" -> 1
                [] pc = "cancelled" -> 0
                [] pc = "success" -> 0
                [] OTHER -> -1

\* the operator invokes the script again after a successful run
Rerun ==
    /\ pc = "success"
    /\ run < MaxRuns
    /\ run' = run + 1
    /\ pc' = "validate"
    /\ ti' = 1
    /\ confirmed' = FALSE
    /\ probed' = {}
    /\ schemaRun' = FALSE
    /\ started' = {}
    /\ completed' = {}
    /\ failedAt' = NONE
    /\ err' = NONE
    /\ pre' = {}
    /\ dst0' = dst
    /\ prev' = [t \in Tables |-> get_table_count(dst, t)]
    /\ report' = NoReport
    /\ missing' = <<>>
    /\ truncated' = {}
    /\ written' = {}
    /\ UNCHANGED <<inputs, src, db, locals>>

Next ==
    \/ Validate
    \/ Connect
    \/ ProbeSource
    \/ ProbeDest
    \/ EnsureSchema
    \/ PreCheck
    \/ PreCheckExcept
    \/ Confirm
    \/ MtSourceCount
    \/ MtColumns
    \/ MtTruncate
    \/ MtRead
    \/ MtInsertBatch
    \/ MtCommit
    \/ MtSetval
    \/ MtDestCount
    \/ Kill
    \/ FinalState
    \/ Rerun

Spec == Init /\ [][Next]_vars


\* ======================= properties ======================================

\* C1: if a table's copy fails at any step, the destination table holds
\* exactly the rows it held when that table's copy began.
C1_FailedCopyLeavesTableAsBefore ==
    failedAt # NONE => dst[failedAt] = pre

\* C2: a table with 0 source rows keeps its destination rows through the
\* whole run: no truncate, its own or a cascading one, removes them.
C2_EmptySourceTableUntouched ==
    \A t \in Tables : get_table_count(src, t) = 0 => dst[t] = dst0[t]

\* C3: once migrate_table has returned for a table with N > 0 source rows,
\* the destination holds N rows of it, up to and including the end of the run.
C3_CopiedCountEqualsSourceCount ==
    \A t \in completed :
        get_table_count(src, t) > 0 =>
            get_table_count(dst, t) = get_table_count(src, t)

C3_Witness ==
    /\ pc = "success"
    /\ completed = Tables
    /\ get_table_count(src, "people") = 2
    /\ get_table_count(dst0, "people") = 1
    /\ get_table_count(src, "interactions") = 1
    /\ get_table_count(dst, "people") = 2

\* C4: the run ends in the "Migration completed successfully!" outcome only
\* if every table's source and destination counts match and no copy raised.
C4_SuccessOnlyIfCountsMatch ==
    pc = "success" =>
        /\ failedAt = NONE
        /\ \A t \in Tables : get_table_count(src, t) = get_table_count(dst, t)

\* C5: migrate_table is called for a table only after migrate_table has
\* returned for every table it references by foreign key.
C5_DependentAfterReferenced ==
    \A t \in started : \A u \in References(t) : u \in completed

C5_Witness ==
    /\ pc = "mt_truncate"
    /\ CurrentTable = "interactions"
    /\ "people" \in completed
    /\ get_table_count(dst, "people") = 2

\* C6: when a table's copy raises, the run is in the failed outcome with
\* exit status 1, the final report was never produced, and migrate_table
\* was called for no table after the failed one.
C6_FailFast ==
    failedAt # NONE =>
        /\ pc = "failed"
        /\ ExitStatus = 1
        /\ report = NoReport
        /\ failedAt \notin completed
        /\ \A u \in started : IndexOf(u) <= IndexOf(failedAt)

C6_Witness ==
    /\ failedAt = "meal_logs"
    /\ pc = "failed"
    /\ started = {"people", "meal_logs"}
    /\ get_table_count(src, "daily_meal_scores") > 0
    /\ dst["daily_meal_scores"] = dst0["daily_meal_scores"]

\* C7: a run that follows a successful run on the same source and succeeds
\* too ends with the destination row counts the earlier run ended with.
C7_RerunKeepsCounts ==
    (run >= 2 /\ pc = "success") =>
        \A t \in Tables : get_table_count(dst, t) = prev[t]

C7_Witness ==
    /\ run = 2
    /\ pc = "success"
    /\ get_table_count(src, "people") = 2
    /\ get_table_count(src, "interactions") = 0
    /\ get_table_count(src, "meal_logs") = 0
    /\ prev["meal_logs"] = 1
    /\ prev["people"] = 2

\* C8: once migrate_table has returned for a table with a SERIAL id and
\* N > 0 source rows, the next value of its sequence is above every id of
\* the migrated rows.
C8_NextIdAboveMigratedIds ==
    \A t \in completed \cap SerialTables :
        get_table_count(src, t) > 0 =>
            \A r \in src[t] \cup dst[t] : nextval(seq[t]) > r.id

C8_Witness ==
    /\ "people" \in completed
    /\ get_table_count(src, "people") = 2
    /\ get_table_count(dst0, "people") = 1
    /\ nextval(seq["people"]) = 3

\* C9: without confirmation (--yes, or the answer y) migrate_table is never
\* called and no destination row changes; a declined run ends that way.
C9_NothingDestructiveUnconfirmed ==
    /\ ~confirmed => (started = {} /\ dst = dst0)
    /\ pc = "cancelled" => (~confirmed /\ started = {} /\ dst = dst0)

C9_Witness ==
    /\ pc = "cancelled"
    /\ ExitStatus = 0
    /\ get_table_count(dst, "people") = 2
    /\ get_table_count(src, "people") = 1

\* C10: the schema statements and every table copy happen only after both
\* probes succeeded; a failed probe ends the run with nothing executed
\* against the destination.
C10_ProbesFirst ==
    /\ (schemaRun \/ started # {} \/ dst # dst0) => probed = {"source", "dest"}
    /\ err \in {"probe_source", "probe_dest"} =>
          (pc = "failed" /\ ~schemaRun /\ started = {} /\ dst = dst0)

C10_Witness ==
    /\ err = "probe_dest"
    /\ pc = "failed"
    /\ probed = {"source"}
    /\ schema # Tables


\* C11: when a table's copy fails, every table copied earlier in the run
\* (source rows > 0, migrate_table returned) still holds its migrated rows.
C11_EarlierCopiesSurviveFailure ==
    failedAt # NONE =>
        \A t \in completed :
            get_table_count(src, t) > 0 =>
                /\ dst[t] = src[t]
                /\ get_table_count(dst, t) = get_table_count(src, t)

C11_Witness ==
    /\ pc = "failed"
    /\ failedAt = "interactions"
    /\ "interactions" \in truncated
    /\ get_table_count(src, "people") = 2
    /\ get_table_count(dst0, "people") = 1
    /\ dst["people"] = src["people"]
    /\ dst["meal_logs"] = src["meal_logs"]
    /\ get_table_count(src, "meal_logs") = 1

\* C12: in every committed state of the destination each interactions row
\* with a person_id points to an existing people row; after a successful
\* run the migrated interactions rows are those of the source.
C12_ReferentialIntegrity ==
    /\ ForeignKeyOk(dst["interactions"], dst["people"])
    /\ (pc = "success" /\ src["interactions"] # {}) =>
          dst["interactions"] = src["interactions"]

C12_Witness ==
    /\ pc = "success"
    /\ [id |-> 1, person_id |-> 1] \in dst["interactions"]
    /\ [id |-> 1] \in dst["people"]
    /\ [id |-> 1] \notin dst0["people"]
    /\ dst0["people"] # {}

\* C13: with a required variable unset or empty the run ends in failure at
\* the validation, before the engines are created or anything is run
\* against a database, and the list of missing variables holds exactly the
\* required variables that are unset or empty.
C13_MissingVariablesReported ==
    LET unset == {v \in RequiredVars : v \notin DOMAIN env \/ env[v] = <<>>}
    IN /\ unset # {} =>
             /\ pc \in {"validate", "failed"}
             /\ err \in {NONE, "config"}
             /\ probed = {} /\ ~schemaRun /\ started = {} /\ dst = dst0
       /\ (pc # "validate" /\ run = 1) =>
             /\ {missing[k] : k \in 1..Len(missing)} = unset
             /\ Len(missing) = Cardinality(unset)

C13_Witness ==
    /\ pc = "failed"
    /\ err = "config"
    /\ missing = <<"DB_NAME", "NEON_DATABASE_URL">>
    /\ "DB_NAME" \in DOMAIN env
    /\ "NEON_DATABASE_URL" \notin DOMAIN env

\* C14: a process killed after a table's copy began and before its insert
\* transaction committed leaves the destination table with its pre-copy rows.
C14_KilledCopyLeavesTableAsBefore ==
    (pc = "killed" /\ err = "killed_before_commit") => dst[CurrentTable] = pre

\* C15: whatever the batch size, no row of a table's write is committed
\* before the whole write commits (in particular after a failure in a later
\* batch), and the commit holds exactly the rows of the source.
C15_WriteIsOneTransaction ==
    /\ \A t \in truncated \ written : dst[t] = {}
    /\ \A t \in written : dst[t] = src[t]

C15_Witness ==
    /\ pc = "failed"
    /\ failedAt = "people"
    /\ batchSize = 1
    /\ inserted = 1
    /\ "people" \in truncated
    /\ dst["people"] = {}
    /\ pre # {}

\* C16: from the commit of a table's TRUNCATE until the copy of a table
\* referencing it commits its rows, that referencing table is empty.
C16_CascadeEmptiesReferencing ==
    \A t \in truncated : \A u \in ReferencedBy(t) : u \notin written => dst[u] = {}

C16_Witness ==
    /\ pc = "mt_read"
    /\ CurrentTable = "people"
    /\ dst0["interactions"] # {}
    /\ dst["interactions"] = {}

\* C17: every step of the pre-migration report, also one whose count
\* raised, leaves both databases as they are and stays in the report or
\* goes on to the confirmation.
C17_PreCheckNeverGates ==
    [][(pc \in {"precheck", "precheck_except"}) =>
          (/\ pc' \in {"precheck", "precheck_except", "confirm"}
           /\ src' = src /\ dst' = dst /\ seq' = seq /\ schema' = schema
           /\ err' = err)
      ]_vars

C17_Witness ==
    /\ pc = "precheck_except"
    /\ CurrentTable = "meal_logs"
    /\ err = NONE
    /\ dst["meal_logs"] # {}

\* C18: the rows of every source table are those present when the script
\* was first started, in every state of every run.
C18_SourceNeverMutated == src = src0

C18_Witness ==
    /\ run = 2
    /\ pc = "success"
    /\ truncated = Tables
    /\ written = Tables

\* C19: a step of ensure_schema_exists leaves every existing table with its
\* rows and its sequence, creates the absent tables empty, and executed
\* again on its result changes nothing.
C19_SchemaBootstrapAdditive ==
    [][(pc = "schema") =>
          (/\ \A t \in schema : t \in schema' /\ dst'[t] = dst[t] /\ seq'[t] = seq[t]
           /\ pc' = "precheck" =>
                 (/\ schema' = Tables
                  /\ \A t \in Tables \ schema : dst'[t] = {}
                  /\ CreateIfNotExists(schema', dst', seq') =
                        [schema |-> schema', dst |-> dst', seq |-> seq']))
      ]_vars

C19_Witness ==
    /\ pc = "precheck"
    /\ ti = 1
    /\ run = 2
    /\ get_table_count(dst, "people") = 2
    /\ dst["meal_logs"] # {}

\* C20: in the final report of a successful run a table is flagged as a
\* mismatch only if it has 0 source rows and still holds the destination
\* rows it had when the run began.
C20_MismatchOnlyForEmptySource ==
    pc = "success" =>
        \A t \in Tables :
            (report[t] = "warn" \/ get_table_count(src, t) # get_table_count(dst, t)) =>
                /\ get_table_count(src, t) = 0
                /\ dst[t] # {}
                /\ dst[t] = dst0[t]
                /\ report[t] = "warn"

C20_Witness ==
    /\ pc = "success"
    /\ report["meal_logs"] = "warn"
    /\ report["people"] = "ok"
    /\ get_table_count(src, "people") = 2
    /\ get_table_count(dst0, "people") = 1

====
